---- MODULE Spec2Model ----
(***************************************************************************)
(* The file-based migration engine of src/config/migrations.ts (class      *)
(* DatabaseMigrations) against a PostgreSQL store, as a state machine.     *)
(*                                                                         *)
(* Every awaited store round trip and every up()/down() call is one step   *)
(* of the process executing a command, so that two processes working on   *)
(* the same store interleave exactly at the code's suspension points.      *)
(*                                                                         *)
(* executed_at is CURRENT_TIMESTAMP of the INSERT statement.  Every insert *)
(* is a statement of its own, separated from the previous one by at least  *)
(* one store round trip, so the store clock `now` is modelled as strictly  *)
(* increasing from one INSERT to the next.                                 *)
(***************************************************************************)
EXTENDS Integers, Sequences, FiniteSets, TLC

\* ---------------------------------------------------------------- bounds
\* Number of migration files that may ever exist in src/migrations.
MaxFiles == 3
\* Number of commands started in one behaviour.
MaxCmds == 3
\* Largest argument given to rollbackSteps.
MaxSteps == 2
\* Largest number of characters of a --step value on the command line.
MaxFlagLen == 2
\* Number of migration files when two processes work concurrently.
MaxConcFiles == 2

\* ------------------------------------------------------ migration files
\* Slug part of the file names; file k is <timestamp k>_<Slugs[k]>.ts, the
\* timestamps ascending with k (20250101T000000, 20250101T000100, ...).
Slugs == <<"create_x", "add_y_to_x", "create_z", "add_w_to_z", "create_v">>

\* A directory entry: the fixed-width timestamp prefix, the slug and the
\* extension.
Filename(k) == [timestamp |-> k, name |-> Slugs[k], ext |-> "ts"]

AllFiles == {Filename(k) : k \in 1..MaxFiles}

AllNames == {f.name : f \in AllFiles}

\* A file created later under the slug of the first file (migrate:create
\* writes <timestamp>_<name>.ts whatever names exist).
SameSlug == [timestamp |-> MaxFiles + 1, name |-> Slugs[1], ext |-> "ts"]

\* Entries that are no migration files.  Their names begin with a letter,
\* which sorts after every digit: the prefix is ranked after all timestamps.
NoTimestamp == MaxFiles + 2

\* helpers.ts: a script without the timestamp prefix.
StrayScript == [timestamp |-> NoTimestamp, name |-> "helpers", ext |-> "ts"]

\* README.md: not a script.
StrayNote == [timestamp |-> NoTimestamp, name |-> "README", ext |-> "md"]

Strays == {StrayScript, StrayNote}

\* file.endsWith('.ts') || file.endsWith('.js')
HasScriptExt(f) == f.ext \in {"ts", "js"}

\* file.match(/^(\d{8}T\d{6})_(.+)\.(ts|js)$/)
Matches(f) == f.timestamp # NoTimestamp /\ f.ext \in {"ts", "js"}

\* A faulty variant of the sort: descending file names.
RECURSIVE SortDesc(_)
SortDesc(S) ==
    IF S = {} THEN <<>>
    ELSE LET f == CHOOSE x \in S : \A y \in S : y.timestamp >= x.timestamp
         IN  Append(SortDesc(S \ {f}), f)

\* Array.prototype.sort() on the file names: lexicographic, which for the
\* fixed-width timestamp prefix is ascending timestamp order.
RECURSIVE Sort(_)
Sort(S) ==
    IF S = {} THEN <<>>
    ELSE LET f == CHOOSE x \in S : \A y \in S : x.timestamp <= y.timestamp
         IN  <<f>> \o Sort(S \ {f})

\* fs.existsSync(this.migrationsPath) false: fs.mkdirSync creates the
\* directory.
Mkdir(f) == IF f = "missing" THEN "made" ELSE f

\* A faulty variant of the format check that lets every entry pass.
getMigrationFilesThrowsNever(d) == FALSE

\* getMigrationFiles() throws 'Invalid migration filename format' when an
\* entry that passed the extension filter does not match the pattern.
getMigrationFilesThrows(d) == \E f \in d : HasScriptExt(f) /\ ~Matches(f)

\* getMigrationFiles(): the entries of the directory with a script
\* extension, sorted, each parsed into {filename, timestamp, name}.
getMigrationFiles(d) ==
    LET files == Sort({f \in d : HasScriptExt(f)})
    IN  [k \in 1..Len(files) |->
            [filename |-> files[k],
             timestamp |-> files[k].timestamp,
             name |-> files[k].name]]

\* migrationFiles.find(m => m.name === migrationName): index of the first
\* match, 0 when there is none.
FindByName(files, name) ==
    IF \E k \in 1..Len(files) : files[k].name = name
    THEN CHOOSE k \in 1..Len(files) :
            /\ files[k].name = name
            /\ \A m \in 1..(k - 1) : files[m].name # name
    ELSE 0

\* ------------------------------------------------------------ the ledger
\* Rows of table `migrations`: migration_name, executed_at, batch.

Max(S) == CHOOSE x \in S : \A y \in S : y <= x

\* A faulty variant of the lookup that never finds the record.
isMigrationExecutedNever(rows, name) == FALSE

\* SELECT 1 FROM migrations WHERE migration_name = $1
isMigrationExecuted(rows, name) == \E r \in rows : r.migration_name = name

\* SELECT MAX(batch) FROM migrations, NULL read as 0.
MaxBatch(rows) == IF rows = {} THEN 0 ELSE Max({r.batch : r \in rows})

\* A faulty variant that reuses the highest batch of a non-empty ledger.
getNextBatchNumberStale(rows) == IF rows = {} THEN 1 ELSE MaxBatch(rows)

\* SELECT COALESCE(MAX(batch), 0) + 1
getNextBatchNumber(rows) == MaxBatch(rows) + 1

\* A faulty variant: the INSERT without the ON CONFLICT clause, on a table
\* without the UNIQUE constraint.
markMigrationExecutedNoConflict(rows, name, batch, t) ==
    rows \cup {[migration_name |-> name, executed_at |-> t,
                batch |-> IF batch # 0 THEN batch ELSE 1]}

\* A faulty variant of the INSERT: executed_at is taken from the timestamp
\* of the migration file, not from the clock.
markMigrationExecutedFileTime(rows, name, batch, t) ==
    IF \E r \in rows : r.migration_name = name
    THEN rows
    ELSE rows \cup {[migration_name |-> name,
                     executed_at |-> CHOOSE k \in 1..Len(Slugs) : Slugs[k] = name,
                     batch |-> IF batch # 0 THEN batch ELSE 1]}

\* INSERT ... ON CONFLICT (migration_name) DO NOTHING; a falsy batch takes
\* the column default 1.
markMigrationExecuted(rows, name, batch, t) ==
    IF \E r \in rows : r.migration_name = name
    THEN rows
    ELSE rows \cup {[migration_name |-> name, executed_at |-> t,
                     batch |-> IF batch # 0 THEN batch ELSE 1]}

\* A faulty variant: the DELETE without its WHERE clause.
removeMigrationRecordAll(rows, name) == {}

\* DELETE FROM migrations WHERE migration_name = $1
removeMigrationRecord(rows, name) == {r \in rows : r.migration_name # name}

\* A faulty variant: ORDER BY executed_at ASC.
RECURSIVE OrderByExecutedAtAsc(_)
OrderByExecutedAtAsc(rows) ==
    IF rows = {} THEN <<>>
    ELSE LET r == CHOOSE x \in rows : \A y \in rows : x.executed_at <= y.executed_at
         IN  <<r>> \o OrderByExecutedAtAsc(rows \ {r})

\* ORDER BY executed_at DESC
RECURSIVE OrderByExecutedAtDesc(_)
OrderByExecutedAtDesc(rows) ==
    IF rows = {} THEN <<>>
    ELSE LET r == CHOOSE x \in rows : \A y \in rows : y.executed_at <= x.executed_at
         IN  <<r>> \o OrderByExecutedAtDesc(rows \ {r})

NamesOf(seq) == [k \in 1..Len(seq) |-> seq[k].migration_name]

\* A faulty variant of the list of executed migrations: highest batch
\* first, oldest first within a batch.
RECURSIVE OrderByBatchDesc(_)
OrderByBatchDesc(rows) ==
    IF rows = {} THEN <<>>
    ELSE LET r == CHOOSE x \in rows : \A y \in rows :
                    \/ y.batch < x.batch
                    \/ y.batch = x.batch /\ x.executed_at <= y.executed_at
         IN  <<r>> \o OrderByBatchDesc(rows \ {r})

getExecutedMigrationsByBatch(rows) == NamesOf(OrderByBatchDesc(rows))

\* SELECT migration_name FROM migrations ORDER BY executed_at DESC
getExecutedMigrations(rows) == NamesOf(OrderByExecutedAtDesc(rows))

\* A faulty variant of the status query: ORDER BY executed_at ASC.
getExecutedMigrationsWithDetailsAsc(rows) ==
    LET s == OrderByExecutedAtAsc(rows)
    IN  [k \in 1..Len(s) |->
            [migration_name |-> s[k].migration_name, executed_at |-> s[k].executed_at]]

\* SELECT migration_name, executed_at FROM migrations ORDER BY executed_at DESC
getExecutedMigrationsWithDetails(rows) ==
    LET s == OrderByExecutedAtDesc(rows)
    IN  [k \in 1..Len(s) |->
            [migration_name |-> s[k].migration_name, executed_at |-> s[k].executed_at]]

\* A faulty variant of the last-batch query: the WHERE clause is missing.
getLastBatchAll(rows) == getExecutedMigrations(rows)

\* SELECT migration_name FROM migrations
\* WHERE batch = (SELECT MAX(batch) FROM migrations) ORDER BY executed_at DESC
getLastBatch(rows) ==
    NamesOf(OrderByExecutedAtDesc({r \in rows : r.batch = MaxBatch(rows)}))

\* A faulty variant of the membership test of rollbackSpecificMigration:
\* every name counts as executed.
RangeAll(s) == AllNames

Range(s) == {s[k] : k \in 1..Len(s)}

\* ------------------------------------------------------------------ state
Procs == {1, 2}

NoFile == [timestamp |-> 0, name |-> "", ext |-> ""]

\* A flag of the command line that was not given.
NoFlag == [given |-> FALSE, value |-> <<>>]

\* No command line: the method is called by an importer of the class.
NoArgv == [command |-> "", name |-> NoFlag, step |-> NoFlag]

VARIABLES
    dir,                \* entries of src/migrations
    folder,             \* src/migrations: "missing", "made" (by the engine), "present"
    table,              \* table `migrations`: "absent", "legacy" (no batch column), "full"
    ledger,             \* rows of table `migrations`
    now,                \* store clock, read by CURRENT_TIMESTAMP
    applied,            \* files whose up() succeeded and whose down() has not since
    active,             \* processes that issue commands
    ncmds,              \* commands started so far
    limit,              \* commands the callers issue in all
    online,             \* the store accepts connections
    hist,               \* the last two commands returned to a sequential caller
    pc,                 \* per process: the suspension point it is at
    op,                 \* per process: the public method the caller invoked
    fn,                 \* per process: the public method now executing
    steps,              \* per process: argument of rollbackSteps
    target,             \* per process: argument of rollbackSpecificMigration
    standalone,         \* per process: process.argv.includes('-e')
    argv,               \* per process: the command line given to scripts/migrate.cjs
    code,               \* per process: exit code of the command, -1 while there is none
    pool,               \* per process: "open" or "ended"
    migrationFiles,     \* runMigrations: the discovered files
    i,                  \* runMigrations: loop position in migrationFiles
    migrationsExecuted, \* runMigrations: counter
    ledgerAtRun,        \* runMigrations: the ledger at its first store access
    inserted,           \* runMigrations: the records that an INSERT of this run created
    currentBatch,       \* runMigrations: batch of this run, 0 for null
    list,               \* rollback loops: names being rolled back
    j,                  \* rollback loops: loop position in list
    stepI,              \* rollbackSteps: loop counter i
    migration,          \* rollbackSingleMigration: the file found for the name
    recordedAtEntry,    \* rollbackSingleMigration: was the name recorded on entry
    output,             \* showMigrationStatus: rows displayed
    result,             \* per process: "none", "ok" (resolved), "error" (rejected)
    report,             \* per process: last outcome message logged
    trace,              \* per process: up()/down() calls of the current command
    ledger0             \* per process: the ledger when the command started

storeVars == <<table, ledger, now, applied>>
envVars == <<dir, folder, active, ncmds, limit, online, hist>>
ctlVars == <<pc, fn, pool, result, report, code>>
argVars == <<op, steps, target, standalone, argv, ledger0>>
runVars == <<migrationFiles, i, migrationsExecuted, currentBatch, ledgerAtRun, inserted>>
rbVars == <<list, j, stepI, migration, recordedAtEntry>>
vars == <<dir, folder, table, ledger, now, applied, active, ncmds, limit, online, hist, pc,
          op, fn, steps, argv, code,
          target, standalone, pool, migrationFiles, i, migrationsExecuted,
          currentBatch, ledgerAtRun, inserted, list, j, stepI, migration, recordedAtEntry,
          output, result, report, trace, ledger0>>

Ops == {"run", "rollbackLastBatch", "rollbackSteps", "rollbackAll",
        "rollbackSpecific", "refresh", "status"}

InitProcs ==
    /\ pc = [p \in Procs |-> "idle"]
    /\ op = [p \in Procs |-> "none"]
    /\ fn = [p \in Procs |-> "none"]
    /\ steps = [p \in Procs |-> 0]
    /\ target = [p \in Procs |-> ""]
    /\ standalone = [p \in Procs |-> FALSE]
    /\ argv = [p \in Procs |-> NoArgv]
    /\ code = [p \in Procs |-> -1]
    /\ pool = [p \in Procs |-> "open"]
    /\ migrationFiles = [p \in Procs |-> <<>>]
    /\ i = [p \in Procs |-> 0]
    /\ migrationsExecuted = [p \in Procs |-> 0]
    /\ currentBatch = [p \in Procs |-> 0]
    /\ ledgerAtRun = [p \in Procs |-> {}]
    /\ inserted = [p \in Procs |-> {}]
    /\ list = [p \in Procs |-> <<>>]
    /\ j = [p \in Procs |-> 0]
    /\ stepI = [p \in Procs |-> 0]
    /\ migration = [p \in Procs |-> NoFile]
    /\ recordedAtEntry = [p \in Procs |-> TRUE]
    /\ output = [p \in Procs |-> <<>>]
    /\ result = [p \in Procs |-> "none"]
    /\ report = [p \in Procs |-> ""]
    /\ trace = [p \in Procs |-> <<>>]
    /\ ledger0 = [p \in Procs |-> {}]

\* A fresh database and an empty src/migrations; one process issues the
\* commands, one after the other.
Init ==
    /\ dir = {}
    /\ folder = "present"
    /\ table = "absent"
    /\ ledger = {}
    /\ now = 1
    /\ applied = {}
    /\ active = {1}
    /\ ncmds = 0
    /\ limit = MaxCmds
    /\ online = TRUE
    /\ hist = <<>>
    /\ InitProcs

\* A faulty variant of the exit code: the rejection is logged and the
\* process ends normally.
ExitCodeZero(res) == 0

\* The exit code of a command of scripts/migrate.cjs: the child process
\* ends with process.exit(0) when the method resolved and process.exit(1)
\* when it rejected; execSync throws on a non-zero status and main() then
\* calls process.exit(1).
ExitCode(res) == IF res = "ok" THEN 0 ELSE 1

\* A faulty variant of refreshMigrations: the outcome of the rollback phase
\* is ignored and the apply phase follows in any case.
FinishRefreshGoesOn(p, ok, msg) ==
    LET endedTwice == standalone[p] /\ pool[p] = "ended"
        res == IF ok /\ ~endedTwice THEN "ok" ELSE "error"
    IN  /\ pool' = [pool EXCEPT ![p] = IF standalone[p] THEN "ended" ELSE @]
        /\ report' = [report EXCEPT ![p] =
                         IF endedTwice THEN "Called end on pool more than once" ELSE msg]
        /\ IF op[p] = "refresh" /\ fn[p] = "rollbackAll"
           THEN /\ fn' = [fn EXCEPT ![p] = "run"]
                /\ pc' = [pc EXCEPT ![p] = "run_tableExists"]
                /\ UNCHANGED <<result, code>>
           ELSE /\ pc' = [pc EXCEPT ![p] = "done"]
                /\ result' = [result EXCEPT ![p] = res]
                /\ code' = [code EXCEPT ![p] = IF standalone[p] THEN ExitCode(res) ELSE @]
                /\ UNCHANGED fn

\* ------------------------------------------------- leaving a public method
\* The `finally` block of every public method but refreshMigrations:
\* pool.end() when the process runs standalone.  pool.end() on a pool that
\* has been ended rejects, and that rejection replaces the method's outcome.
\* refreshMigrations awaits rollbackAllMigrations and, when that resolved,
\* goes on to runMigrations.
Finish(p, ok, msg) ==
    LET endedTwice == standalone[p] /\ pool[p] = "ended"
        res == IF ok /\ ~endedTwice THEN "ok" ELSE "error"
    IN  /\ pool' = [pool EXCEPT ![p] = IF standalone[p] THEN "ended" ELSE @]
        /\ report' = [report EXCEPT ![p] =
                         IF endedTwice THEN "Called end on pool more than once" ELSE msg]
        /\ IF op[p] = "refresh" /\ fn[p] = "rollbackAll" /\ res = "ok"
           THEN /\ fn' = [fn EXCEPT ![p] = "run"]
                /\ pc' = [pc EXCEPT ![p] = "run_tableExists"]
                /\ UNCHANGED <<result, code>>
           ELSE /\ pc' = [pc EXCEPT ![p] = "done"]
                /\ result' = [result EXCEPT ![p] = res]
                /\ code' = [code EXCEPT ![p] = IF standalone[p] THEN ExitCode(res) ELSE @]
                /\ UNCHANGED fn

Goto(p, label) ==
    /\ pc' = [pc EXCEPT ![p] = label]
    /\ UNCHANGED <<fn, pool, result, report, code>>

\* ------------------------------------------------------------- commands
\* A caller invokes one public method of DatabaseMigrations in a new
\* process: the CLI (scripts/migrate.cjs) with '-e' in argv, for every
\* method; the server bootstrap (server.ts) and other importers of the
\* class without it, for runMigrations and refreshMigrations.
Invoke(p, o, n, t, e) ==
    /\ op' = [op EXCEPT ![p] = o]
    /\ fn' = [fn EXCEPT ![p] = IF o = "refresh" THEN "rollbackAll" ELSE o]
    /\ steps' = [steps EXCEPT ![p] = IF o = "rollbackSteps" THEN n ELSE 0]
    /\ target' = [target EXCEPT ![p] = IF o = "rollbackSpecific" THEN t ELSE ""]
    /\ standalone' = [standalone EXCEPT ![p] = e]
    /\ pc' = [pc EXCEPT ![p] =
                CASE o = "run" -> "run_tableExists"
                  [] o = "status" -> "st_tableExists"
                  [] o = "none" -> "done"
                  [] OTHER -> "rb_tableExists"]
    /\ ncmds' = ncmds + 1
    /\ ledger0' = [ledger0 EXCEPT ![p] = ledger]
    /\ UNCHANGED <<dir, folder, active, limit, online, hist, pool, result, report, trace,
                   output>>
    /\ UNCHANGED <<storeVars, runVars, rbVars>>

Start(p) ==
    /\ p \in active
    /\ pc[p] = "idle"
    /\ ncmds < limit
    /\ \E o \in Ops, n \in 1..MaxSteps, t \in AllNames, e \in BOOLEAN :
        /\ (o # "rollbackSteps") => n = 1
        /\ (o # "rollbackSpecific") => t = Slugs[1]
        /\ (o \notin {"run", "refresh"}) => e
        /\ Invoke(p, o, n, t, e)
    /\ UNCHANGED <<argv, code>>

\* ------------------------------------------------- scripts/migrate.cjs
\* A flag --key=value of the command line: given or not, its value a
\* string of characters (a migration name counts as one character).
\* parseArgs stores `value || true`: a flag without a value, or with the
\* empty value, is stored as the boolean true.
parseArgs(flag) ==
    IF ~flag.given THEN [type |-> "undefined", value |-> <<>>]
    ELSE IF flag.value = <<>> THEN [type |-> "boolean", value |-> <<>>]
    ELSE [type |-> "string", value |-> flag.value]

\* if (parsedArgs.flags.<key>): undefined is falsy, true and non-empty
\* strings are truthy.
Truthy(v) == v.type # "undefined"

\* The characters of a --step value.
Chars == {"0", "1", "2", "x", "-", "."}

IsDigit(c) == c \in {"0", "1", "2"}

DigitValue(c) == CASE c = "0" -> 0 [] c = "1" -> 1 [] c = "2" -> 2

\* The longest prefix of s made of digits.
RECURSIVE DigitPrefix(_)
DigitPrefix(s) ==
    IF s = <<>> \/ ~IsDigit(Head(s)) THEN <<>>
    ELSE <<Head(s)>> \o DigitPrefix(Tail(s))

\* The value of a string of digits in the radix.
RECURSIVE Numeral(_, _)
Numeral(ds, radix) ==
    IF ds = <<>> THEN 0
    ELSE Numeral(SubSeq(ds, 1, Len(ds) - 1), radix) * radix + DigitValue(ds[Len(ds)])

\* parseInt(v) without a radix: v is converted to a string (true becomes
\* 'true'); an optional sign, then 0x and hexadecimal digits, or the
\* longest prefix of decimal digits; NaN when there is no digit.
parseInt(v) ==
    IF v.type # "string" THEN [nan |-> TRUE, value |-> 0]
    ELSE LET neg == v.value # <<>> /\ Head(v.value) = "-"
             body == IF neg THEN Tail(v.value) ELSE v.value
             hex == Len(body) >= 2 /\ body[1] = "0" /\ body[2] = "x"
             ds == IF hex THEN DigitPrefix(SubSeq(body, 3, Len(body)))
                   ELSE DigitPrefix(body)
             n == Numeral(ds, IF hex THEN 16 ELSE 10)
         IN  IF ds = <<>> THEN [nan |-> TRUE, value |-> 0]
             ELSE [nan |-> FALSE, value |-> IF neg THEN 0 - n ELSE n]

\* `${parsedArgs.flags.name}`: the name as text, 'true' for the boolean.
NameText(v) == IF v.type = "string" THEN v.value[1] ELSE "true"

\* handleRollback: the method the `rollback` command calls, with its
\* arguments; "none" when it prints 'Step value must be a positive number'
\* and returns.
handleRollback(name, step) ==
    IF Truthy(name)
    THEN [op |-> "rollbackSpecific", steps |-> 1, target |-> NameText(name)]
    ELSE IF Truthy(step)
         THEN LET n == parseInt(step)
              IN  IF n.nan \/ n.value < 1
                  THEN [op |-> "none", steps |-> 1, target |-> ""]
                  ELSE [op |-> "rollbackSteps", steps |-> n.value, target |-> ""]
         ELSE [op |-> "rollbackLastBatch", steps |-> 1, target |-> ""]

\* The commands of scripts/migrate.cjs that call the engine.
CliCommands == {"run", "rollback", "rollback:all", "refresh", "status"}

\* commands[command]
Dispatch(command, name, step) ==
    CASE command = "run" -> [op |-> "run", steps |-> 1, target |-> ""]
      [] command = "rollback" -> handleRollback(name, step)
      [] command = "rollback:all" -> [op |-> "rollbackAll", steps |-> 1, target |-> ""]
      [] command = "refresh" -> [op |-> "refresh", steps |-> 1, target |-> ""]
      [] command = "status" -> [op |-> "status", steps |-> 1, target |-> ""]

\* The values --name and --step are given on the command line.
NameFlags == {NoFlag} \cup {[given |-> TRUE, value |-> v] : v \in {<<>>} \cup {<<n>> : n \in AllNames}}

StepFlags ==
    {NoFlag} \cup {[given |-> TRUE, value |-> v] :
                     v \in UNION {[1..n -> Chars] : n \in 0..MaxFlagLen}}

\* node scripts/migrate.cjs <command> [--name=...] [--step=...]: main()
\* calls the handler, which starts the engine method in a child process
\* (npx tsx -e ...), or returns at once, the process ending with code 0.
Cli(p) ==
    /\ p \in active
    /\ pc[p] = "idle"
    /\ ncmds < limit
    /\ \E c \in CliCommands, nm \in NameFlags, st \in StepFlags :
        /\ (c # "rollback") => (nm = NoFlag /\ st = NoFlag)
        /\ argv' = [argv EXCEPT ![p] = [command |-> c, name |-> nm, step |-> st]]
        /\ LET call == Dispatch(c, parseArgs(nm), parseArgs(st))
           IN  /\ Invoke(p, call.op, call.steps, call.target, TRUE)
               /\ code' = [code EXCEPT ![p] = IF call.op = "none" THEN 0 ELSE @]

\* The batch recorded for a name, 0 when the name has no record.
BatchOf(rows, name) ==
    IF \E r \in rows : r.migration_name = name
    THEN (CHOOSE r \in rows : r.migration_name = name).batch
    ELSE 0

\* The process exits (or the caller's await returns); the command enters
\* the history of returned commands.
Exit(p) ==
    /\ pc[p] = "done"
    /\ hist' = IF active = {1}
               THEN (IF Len(hist) = 2 THEN Tail(hist) ELSE hist) \o
                    <<[op |-> op[p], target |-> target[p], result |-> result[p],
                       batch |-> BatchOf(ledger0[p], target[p]), dir |-> dir]>>
               ELSE hist
    /\ pc' = [pc EXCEPT ![p] = "idle"]
    /\ op' = [op EXCEPT ![p] = "none"]
    /\ fn' = [fn EXCEPT ![p] = "none"]
    /\ steps' = [steps EXCEPT ![p] = 0]
    /\ target' = [target EXCEPT ![p] = ""]
    /\ standalone' = [standalone EXCEPT ![p] = FALSE]
    /\ argv' = [argv EXCEPT ![p] = NoArgv]
    /\ code' = [code EXCEPT ![p] = -1]
    /\ pool' = [pool EXCEPT ![p] = "open"]
    /\ migrationFiles' = [migrationFiles EXCEPT ![p] = <<>>]
    /\ i' = [i EXCEPT ![p] = 0]
    /\ migrationsExecuted' = [migrationsExecuted EXCEPT ![p] = 0]
    /\ currentBatch' = [currentBatch EXCEPT ![p] = 0]
    /\ ledgerAtRun' = [ledgerAtRun EXCEPT ![p] = {}]
    /\ inserted' = [inserted EXCEPT ![p] = {}]
    /\ list' = [list EXCEPT ![p] = <<>>]
    /\ j' = [j EXCEPT ![p] = 0]
    /\ stepI' = [stepI EXCEPT ![p] = 0]
    /\ migration' = [migration EXCEPT ![p] = NoFile]
    /\ recordedAtEntry' = [recordedAtEntry EXCEPT ![p] = TRUE]
    /\ output' = [output EXCEPT ![p] = <<>>]
    /\ result' = [result EXCEPT ![p] = "none"]
    /\ report' = [report EXCEPT ![p] = ""]
    /\ trace' = [trace EXCEPT ![p] = <<>>]
    /\ ledger0' = [ledger0 EXCEPT ![p] = {}]
    /\ UNCHANGED <<dir, folder, active, ncmds, limit, online, storeVars>>

\* A developer adds the next migration file (npm run migrate:create stamps
\* it with the current time, later than every existing file).
AddFile ==
    /\ \A p \in Procs : pc[p] = "idle"
    /\ LET k == Max({f.timestamp : f \in dir} \cup {0}) + 1
       IN  /\ k <= MaxFiles
           /\ dir' = dir \cup {Filename(k)}
    /\ folder' = "present"
    /\ UNCHANGED <<active, ncmds, limit, online, hist, storeVars, ctlVars, argVars, runVars, rbVars,
                   output, trace>>

\* ---------------------------------------------------------- runMigrations
\* await this.migrationTableExists()
RunTableExists(p) ==
    /\ pc[p] = "run_tableExists"
    /\ IF pool[p] = "ended"
       THEN Finish(p, FALSE, "Cannot use a pool after calling end on the pool")
       ELSE IF ~online
            THEN Finish(p, FALSE, "connect ECONNREFUSED")
            ELSE Goto(p, IF table = "absent" THEN "create_table" ELSE "get_files")
    /\ ledgerAtRun' = [ledgerAtRun EXCEPT ![p] = ledger]
    /\ UNCHANGED <<envVars, storeVars, argVars, rbVars, output, trace>>
    /\ UNCHANGED <<migrationFiles, i, migrationsExecuted, currentBatch, inserted>>

\* createMigrationsTable: CREATE TABLE IF NOT EXISTS migrations (id,
\* migration_name, executed_at)
CreateTable(p) ==
    /\ pc[p] = "create_table"
    /\ table' = IF table = "absent" THEN "legacy" ELSE table
    /\ Goto(p, "check_column")
    /\ UNCHANGED <<envVars, ledger, now, applied, argVars, runVars, rbVars, output, trace>>

\* createMigrationsTable: checkColumnExists('migrations', 'batch')
CheckColumn(p) ==
    /\ pc[p] = "check_column"
    /\ Goto(p, IF table = "full" THEN "get_files" ELSE "add_column")
    /\ UNCHANGED <<envVars, storeVars, argVars, runVars, rbVars, output, trace>>

\* createMigrationsTable: ALTER TABLE migrations ADD COLUMN batch INTEGER
\* DEFAULT 1; it fails when the column exists by now.
AddColumn(p) ==
    /\ pc[p] = "add_column"
    /\ IF table = "full"
       THEN /\ Finish(p, FALSE, "column batch already exists")
            /\ UNCHANGED <<table, ledger>>
       ELSE /\ table' = "full"
            /\ ledger' = {[r EXCEPT !.batch = 1] : r \in ledger}
            /\ Goto(p, "backfill")
    /\ UNCHANGED <<envVars, now, applied, argVars, runVars, rbVars, output, trace>>

\* createMigrationsTable: UPDATE migrations SET batch = 1 WHERE batch IS NULL
Backfill(p) ==
    /\ pc[p] = "backfill"
    /\ ledger' = {IF r.batch = 0 THEN [r EXCEPT !.batch = 1] ELSE r : r \in ledger}
    /\ Goto(p, "get_files")
    /\ UNCHANGED <<envVars, table, now, applied, argVars, runVars, rbVars, output, trace>>

\* The report at the end of runMigrations.
RunReport(n) == IF n = 0 THEN "Nothing to migrate" ELSE "Migrations completed"

\* A faulty variant of discovery: a missing directory is not created and
\* reading it fails.
GetFilesNoMkdir(p) ==
    /\ pc[p] = "get_files"
    /\ IF getMigrationFilesThrows(dir) \/ folder = "missing"
       THEN /\ Finish(p, FALSE, "ENOENT: no such file or directory, scandir")
            /\ UNCHANGED <<migrationFiles, i>>
       ELSE LET files == getMigrationFiles(dir)
            IN  /\ migrationFiles' = [migrationFiles EXCEPT ![p] = files]
                /\ i' = [i EXCEPT ![p] = 1]
                /\ IF files = <<>>
                   THEN Finish(p, TRUE, RunReport(0))
                   ELSE Goto(p, "is_executed")
    /\ migrationsExecuted' = [migrationsExecuted EXCEPT ![p] = 0]
    /\ currentBatch' = [currentBatch EXCEPT ![p] = 0]
    /\ UNCHANGED <<dir, folder, active, ncmds, limit, online, hist>>
    /\ UNCHANGED <<storeVars, argVars, rbVars, output, trace, ledgerAtRun, inserted>>

\* const migrationFiles = await this.getMigrationFiles(), and entry into
\* the loop over them.
GetFiles(p) ==
    /\ pc[p] = "get_files"
    /\ IF getMigrationFilesThrows(dir)
       THEN /\ Finish(p, FALSE, "Invalid migration filename format")
            /\ UNCHANGED <<migrationFiles, i>>
       ELSE LET files == getMigrationFiles(dir)
            IN  /\ migrationFiles' = [migrationFiles EXCEPT ![p] = files]
                /\ i' = [i EXCEPT ![p] = 1]
                /\ IF files = <<>>
                   THEN Finish(p, TRUE, RunReport(0))
                   ELSE Goto(p, "is_executed")
    /\ migrationsExecuted' = [migrationsExecuted EXCEPT ![p] = 0]
    /\ currentBatch' = [currentBatch EXCEPT ![p] = 0]
    /\ folder' = Mkdir(folder)
    /\ UNCHANGED <<dir, active, ncmds, limit, online, hist>>
    /\ UNCHANGED <<storeVars, argVars, rbVars, output, trace, ledgerAtRun, inserted>>

\* The for loop moves to the next file, or runMigrations reports and returns.
RunNext(p, executed) ==
    /\ i' = [i EXCEPT ![p] = @ + 1]
    /\ migrationsExecuted' = [migrationsExecuted EXCEPT ![p] = executed]
    /\ IF i[p] < Len(migrationFiles[p])
       THEN Goto(p, "is_executed")
       ELSE Finish(p, TRUE, RunReport(executed))

\* executeMigration: if (await this.isMigrationExecuted(migration.name)) return false
IsExecuted(p) ==
    /\ pc[p] = "is_executed"
    /\ IF isMigrationExecuted(ledger, migrationFiles[p][i[p]].name)
       THEN RunNext(p, migrationsExecuted[p])
       ELSE /\ Goto(p, "up")
            /\ UNCHANGED <<i, migrationsExecuted>>
    /\ UNCHANGED <<envVars, storeVars, argVars, migrationFiles, currentBatch, rbVars,
                   output, trace, ledgerAtRun, inserted>>

\* A faulty variant of up() handling: a failure undoes the records this run
\* has written.
UpRevertsRun(p) ==
    /\ pc[p] = "up"
    /\ LET m == migrationFiles[p][i[p]]
       IN  \E ok \in BOOLEAN :
            /\ trace' = [trace EXCEPT ![p] =
                            Append(@, [call |-> "up", name |-> m.name,
                                       file |-> m.filename, ok |-> ok])]
            /\ IF ok
               THEN /\ applied' = applied \cup {m.filename}
                    /\ Goto(p, IF currentBatch[p] = 0 THEN "next_batch" ELSE "mark")
                    /\ UNCHANGED ledger
               ELSE /\ Finish(p, FALSE, "up failed")
                    /\ ledger' = ledgerAtRun[p]
                    /\ UNCHANGED applied
    /\ UNCHANGED <<envVars, table, now, argVars, runVars, rbVars, output>>

\* A faulty variant of the run loop: an up() that threw is logged and the
\* loop goes on with the next file.
UpContinues(p) ==
    /\ pc[p] = "up"
    /\ LET m == migrationFiles[p][i[p]]
       IN  \E ok \in BOOLEAN :
            /\ trace' = [trace EXCEPT ![p] =
                            Append(@, [call |-> "up", name |-> m.name,
                                       file |-> m.filename, ok |-> ok])]
            /\ IF ok
               THEN /\ applied' = applied \cup {m.filename}
                    /\ Goto(p, IF currentBatch[p] = 0 THEN "next_batch" ELSE "mark")
                    /\ UNCHANGED <<i, migrationsExecuted>>
               ELSE /\ RunNext(p, migrationsExecuted[p])
                    /\ UNCHANGED applied
    /\ UNCHANGED <<envVars, table, ledger, now, argVars, migrationFiles, currentBatch,
                   ledgerAtRun, inserted, rbVars, output>>

\* executeMigration: await migrationInstance.up(), which may throw.
Up(p) ==
    /\ pc[p] = "up"
    /\ LET m == migrationFiles[p][i[p]]
       IN  \E ok \in BOOLEAN :
            /\ trace' = [trace EXCEPT ![p] =
                            Append(@, [call |-> "up", name |-> m.name,
                                       file |-> m.filename, ok |-> ok])]
            /\ IF ok
               THEN /\ applied' = applied \cup {m.filename}
                    /\ Goto(p, IF currentBatch[p] = 0 THEN "next_batch" ELSE "mark")
               ELSE /\ Finish(p, FALSE, "up failed")
                    /\ UNCHANGED applied
    /\ UNCHANGED <<envVars, table, ledger, now, argVars, runVars, rbVars, output>>

\* A faulty variant of the allocation: each invocation takes a number of
\* its own above the highest batch.
NextBatchReserved(p) ==
    /\ pc[p] = "next_batch"
    /\ IF table = "full"
       THEN /\ currentBatch' = [currentBatch EXCEPT ![p] = MaxBatch(ledger) + p]
            /\ Goto(p, "mark")
       ELSE /\ Finish(p, FALSE, "column batch does not exist")
            /\ UNCHANGED currentBatch
    /\ UNCHANGED <<envVars, storeVars, argVars, migrationFiles, i, migrationsExecuted,
                   rbVars, output, trace, ledgerAtRun, inserted>>

\* currentBatch = await this.getNextBatchNumber()
NextBatch(p) ==
    /\ pc[p] = "next_batch"
    /\ IF table = "full"
       THEN /\ currentBatch' = [currentBatch EXCEPT ![p] = getNextBatchNumber(ledger)]
            /\ Goto(p, "mark")
       ELSE /\ Finish(p, FALSE, "column batch does not exist")
            /\ UNCHANGED currentBatch
    /\ UNCHANGED <<envVars, storeVars, argVars, migrationFiles, i, migrationsExecuted,
                   rbVars, output, trace, ledgerAtRun, inserted>>

\* await this.markMigrationExecuted(migration.name, currentBatch);
\* migrationsExecuted++
Mark(p) ==
    /\ pc[p] = "mark"
    /\ IF table = "full"
       THEN /\ ledger' = markMigrationExecuted(ledger, migrationFiles[p][i[p]].name,
                                               currentBatch[p], now)
            /\ now' = now + 1
            /\ RunNext(p, migrationsExecuted[p] + 1)
       ELSE /\ Finish(p, FALSE, "column batch does not exist")
            /\ UNCHANGED <<ledger, now, i, migrationsExecuted>>
    /\ inserted' = [inserted EXCEPT ![p] = @ \cup (ledger' \ ledger)]
    /\ UNCHANGED <<envVars, table, applied, argVars, migrationFiles, currentBatch,
                   rbVars, output, trace, ledgerAtRun>>

\* ------------------------------------------------------------- rollbacks
\* The message a rollback method logs when its work is done.
RollbackReport(f) ==
    CASE f = "rollbackAll" -> "All migrations rolled back"
      [] f = "rollbackLastBatch" -> "Last batch rollback completed"
      [] f = "rollbackSteps" -> "Rollback of batch(es) completed"
      [] OTHER -> "Migration rollback completed"

\* await this.migrationTableExists() at the head of rollbackAllMigrations,
\* rollbackLastBatch, rollbackSteps and rollbackSpecificMigration.
RbTableExists(p) ==
    /\ pc[p] = "rb_tableExists"
    /\ IF pool[p] = "ended"
       THEN Finish(p, FALSE, "Cannot use a pool after calling end on the pool")
       ELSE IF ~online
       THEN Finish(p, FALSE, "connect ECONNREFUSED")
       ELSE IF table = "absent"
            THEN Finish(p, TRUE, "Migration table does not exist. Nothing to rollback.")
            ELSE Goto(p, "rb_list")
    /\ UNCHANGED <<envVars, storeVars, argVars, runVars, rbVars, output, trace>>

\* The query that selects what to roll back: getExecutedMigrations() in
\* rollbackAllMigrations and rollbackSpecificMigration, getLastBatch() in
\* rollbackLastBatch and in each iteration of rollbackSteps.
RbList(p) ==
    /\ pc[p] = "rb_list"
    /\ IF fn[p] \in {"rollbackLastBatch", "rollbackSteps"} /\ table # "full"
       THEN /\ Finish(p, FALSE, "column batch does not exist")
            /\ UNCHANGED <<list, j>>
       ELSE LET names == IF fn[p] \in {"rollbackLastBatch", "rollbackSteps"}
                         THEN getLastBatch(ledger)
                         ELSE getExecutedMigrations(ledger)
            IN  CASE fn[p] = "rollbackSpecific" /\ target[p] \notin Range(names) ->
                       /\ Finish(p, TRUE, "was not executed or not found")
                       /\ UNCHANGED <<list, j>>
                  [] fn[p] = "rollbackSpecific" /\ target[p] \in Range(names) ->
                       /\ list' = [list EXCEPT ![p] = <<target[p]>>]
                       /\ j' = [j EXCEPT ![p] = 1]
                       /\ Goto(p, "rs_files")
                  [] fn[p] # "rollbackSpecific" /\ names = <<>> ->
                       /\ Finish(p, TRUE, IF fn[p] = "rollbackSteps"
                                          THEN RollbackReport(fn[p])
                                          ELSE "No migrations to rollback")
                       /\ UNCHANGED <<list, j>>
                  [] OTHER ->
                       /\ list' = [list EXCEPT ![p] = names]
                       /\ j' = [j EXCEPT ![p] = 1]
                       /\ Goto(p, "rs_files")
    /\ UNCHANGED <<envVars, storeVars, argVars, runVars, stepI, migration,
                   recordedAtEntry, output, trace>>

\* A faulty variant of the lookup: a name without a file counts as rolled
\* back, and its record is deleted.
RsFilesSkipsMissing(p) ==
    /\ pc[p] = "rs_files"
    /\ IF getMigrationFilesThrows(dir)
       THEN /\ Finish(p, FALSE, "Invalid migration filename format")
            /\ UNCHANGED migration
       ELSE LET files == getMigrationFiles(dir)
                k == FindByName(files, list[p][j[p]])
            IN  IF k = 0
                THEN /\ Goto(p, "remove")
                     /\ UNCHANGED migration
                ELSE /\ migration' = [migration EXCEPT ![p] = files[k].filename]
                     /\ Goto(p, "down")
    /\ recordedAtEntry' = [recordedAtEntry EXCEPT ![p] =
                              isMigrationExecuted(ledger, list[p][j[p]])]
    /\ folder' = Mkdir(folder)
    /\ UNCHANGED <<dir, active, ncmds, limit, online, hist>>
    /\ UNCHANGED <<storeVars, argVars, runVars, list, j, stepI, output, trace>>

\* rollbackSingleMigration: getMigrationFiles() and find() by name; throws
\* when no file carries the name.
RsFiles(p) ==
    /\ pc[p] = "rs_files"
    /\ IF getMigrationFilesThrows(dir)
       THEN /\ Finish(p, FALSE, "Invalid migration filename format")
            /\ UNCHANGED migration
       ELSE LET files == getMigrationFiles(dir)
                k == FindByName(files, list[p][j[p]])
            IN  IF k = 0
                THEN /\ Finish(p, FALSE, "Migration not found")
                     /\ UNCHANGED migration
                ELSE /\ migration' = [migration EXCEPT ![p] = files[k].filename]
                     /\ Goto(p, "down")
    /\ recordedAtEntry' = [recordedAtEntry EXCEPT ![p] =
                              isMigrationExecuted(ledger, list[p][j[p]])]
    /\ folder' = Mkdir(folder)
    /\ UNCHANGED <<dir, active, ncmds, limit, online, hist>>
    /\ UNCHANGED <<storeVars, argVars, runVars, list, j, stepI, output, trace>>

\* rollbackSingleMigration: await migrationInstance.down(), which may
\* throw; a faulty variant that deletes the record although down() threw.
DownDropsRecord(p) ==
    /\ pc[p] = "down"
    /\ \E ok \in BOOLEAN :
        /\ trace' = [trace EXCEPT ![p] =
                        Append(@, [call |-> "down", name |-> list[p][j[p]],
                                   file |-> migration[p], ok |-> ok])]
        /\ IF ok
           THEN /\ applied' = applied \ {migration[p]}
                /\ Goto(p, "remove")
                /\ UNCHANGED ledger
           ELSE /\ Finish(p, FALSE, "down failed")
                /\ ledger' = removeMigrationRecord(ledger, list[p][j[p]])
                /\ UNCHANGED applied
    /\ UNCHANGED <<envVars, table, now, argVars, runVars, rbVars, output>>

\* A faulty variant of the rollback loops: a down() that threw is logged
\* and the loop goes on with the next name.
DownContinues(p) ==
    /\ pc[p] = "down"
    /\ \E ok \in BOOLEAN :
        /\ trace' = [trace EXCEPT ![p] =
                        Append(@, [call |-> "down", name |-> list[p][j[p]],
                                   file |-> migration[p], ok |-> ok])]
        /\ IF ok
           THEN /\ applied' = applied \ {migration[p]}
                /\ Goto(p, "remove")
                /\ UNCHANGED j
           ELSE /\ IF j[p] < Len(list[p])
                   THEN /\ j' = [j EXCEPT ![p] = @ + 1]
                        /\ Goto(p, "rs_files")
                   ELSE /\ Finish(p, FALSE, "down failed")
                        /\ UNCHANGED j
                /\ UNCHANGED applied
    /\ UNCHANGED <<envVars, table, ledger, now, argVars, runVars, list, stepI,
                   migration, recordedAtEntry, output>>

\* rollbackSingleMigration: await migrationInstance.down(), which may throw.
Down(p) ==
    /\ pc[p] = "down"
    /\ \E ok \in BOOLEAN :
        /\ trace' = [trace EXCEPT ![p] =
                        Append(@, [call |-> "down", name |-> list[p][j[p]],
                                   file |-> migration[p], ok |-> ok])]
        /\ IF ok
           THEN /\ applied' = applied \ {migration[p]}
                /\ Goto(p, "remove")
           ELSE /\ Finish(p, FALSE, "down failed")
                /\ UNCHANGED applied
    /\ UNCHANGED <<envVars, table, ledger, now, argVars, runVars, rbVars, output>>

\* A faulty variant of the loop of rollbackSteps: i <= steps.
RemoveOffByOne(p) ==
    /\ pc[p] = "remove"
    /\ ledger' = removeMigrationRecord(ledger, list[p][j[p]])
    /\ IF j[p] < Len(list[p])
       THEN /\ j' = [j EXCEPT ![p] = @ + 1]
            /\ Goto(p, "rs_files")
            /\ UNCHANGED stepI
       ELSE IF fn[p] = "rollbackSteps"
            THEN /\ stepI' = [stepI EXCEPT ![p] = @ + 1]
                 /\ UNCHANGED j
                 /\ IF stepI[p] + 1 <= steps[p]
                    THEN Goto(p, "rb_list")
                    ELSE Finish(p, TRUE, RollbackReport(fn[p]))
            ELSE /\ Finish(p, TRUE, RollbackReport(fn[p]))
                 /\ UNCHANGED <<j, stepI>>
    /\ UNCHANGED <<envVars, table, now, applied, argVars, runVars, list, migration,
                   recordedAtEntry, output, trace>>

\* rollbackSingleMigration: await this.removeMigrationRecord(migrationName),
\* then the caller's loop goes on or the method reports and returns.
Remove(p) ==
    /\ pc[p] = "remove"
    /\ ledger' = removeMigrationRecord(ledger, list[p][j[p]])
    /\ IF j[p] < Len(list[p])
       THEN /\ j' = [j EXCEPT ![p] = @ + 1]
            /\ Goto(p, "rs_files")
            /\ UNCHANGED stepI
       ELSE IF fn[p] = "rollbackSteps"
            THEN /\ stepI' = [stepI EXCEPT ![p] = @ + 1]
                 /\ UNCHANGED j
                 /\ IF stepI[p] + 1 < steps[p]
                    THEN Goto(p, "rb_list")
                    ELSE Finish(p, TRUE, RollbackReport(fn[p]))
            ELSE /\ Finish(p, TRUE, RollbackReport(fn[p]))
                 /\ UNCHANGED <<j, stepI>>
    /\ UNCHANGED <<envVars, table, now, applied, argVars, runVars, list, migration,
                   recordedAtEntry, output, trace>>

\* ---------------------------------------------------- showMigrationStatus
\* await this.migrationTableExists()
StTableExists(p) ==
    /\ pc[p] = "st_tableExists"
    /\ IF pool[p] = "ended"
       THEN Finish(p, FALSE, "Cannot use a pool after calling end on the pool")
       ELSE IF ~online
       THEN Finish(p, FALSE, "connect ECONNREFUSED")
       ELSE IF table = "absent"
            THEN Finish(p, TRUE, "Migration table does not exist.")
            ELSE Goto(p, "st_list")
    /\ UNCHANGED <<envVars, storeVars, argVars, runVars, rbVars, output, trace>>

\* await this.getExecutedMigrationsWithDetails() and the table display.
StList(p) ==
    /\ pc[p] = "st_list"
    /\ LET rows == getExecutedMigrationsWithDetails(ledger)
       IN  /\ output' = [output EXCEPT ![p] = rows]
           /\ Finish(p, TRUE, IF rows = <<>> THEN "No migrations executed yet"
                              ELSE "Total migrations executed")
    /\ UNCHANGED <<envVars, storeVars, argVars, runVars, rbVars, trace>>

\* ---------------------------------------------------------- specification
Step(p) ==
    \/ Start(p)
    \/ Exit(p)
    \/ RunTableExists(p)
    \/ CreateTable(p)
    \/ CheckColumn(p)
    \/ AddColumn(p)
    \/ Backfill(p)
    \/ GetFiles(p)
    \/ IsExecuted(p)
    \/ Up(p)
    \/ NextBatch(p)
    \/ Mark(p)
    \/ RbTableExists(p)
    \/ RbList(p)
    \/ RsFiles(p)
    \/ Down(p)
    \/ Remove(p)
    \/ StTableExists(p)
    \/ StList(p)

Next == AddFile \/ \E p \in Procs : Step(p)

Spec == Init /\ [][Next]_vars

\* Two processes (say the server bootstrap and the CLI, or two CLI runs)
\* work on the same store, each issuing one command.  The store is fresh,
\* or a run has applied every file in batch 1.
ConcFiles == {Filename(k) : k \in 1..MaxConcFiles}

MigratedLedger ==
    {[migration_name |-> Filename(k).name, executed_at |-> k, batch |-> 1] :
        k \in 1..MaxConcFiles}

InitConc ==
    /\ dir = ConcFiles
    /\ folder = "present"
    /\ \/ /\ table = "absent"
          /\ ledger = {}
          /\ now = 1
          /\ applied = {}
       \/ /\ table = "full"
          /\ ledger = MigratedLedger
          /\ now = MaxConcFiles + 1
          /\ applied = ConcFiles
    /\ active = {1, 2}
    /\ ncmds = 0
    /\ limit = Cardinality(active)
    /\ online = TRUE
    /\ hist = <<>>
    /\ InitProcs

NextConc == \E p \in Procs : Step(p)

SpecConc == InitConc /\ [][NextConc]_vars

\* The ledgers that sequential runs over the first n files leave behind:
\* file k recorded at time k, the batch numbers starting at 1 and growing
\* by at most one from a record to the next.
RunLedgers ==
    UNION {{{[migration_name |-> Filename(k).name, executed_at |-> k, batch |-> b[k]] :
                k \in 1..n} :
             b \in {c \in [1..n -> 1..MaxFiles] :
                      /\ n >= 1 => c[1] = 1
                      /\ \A k \in 2..n : c[k] \in {c[k - 1], c[k - 1] + 1}}} :
           n \in 0..MaxFiles}

\* One command on a store that earlier runs have filled, in a directory
\* that has changed since: migration files deleted or not yet applied, and
\* entries that are no migration files.
InitDir ==
    /\ dir \in SUBSET (AllFiles \cup {SameSlug} \cup Strays)
    /\ folder \in {"missing", "present"}
    /\ folder = "missing" => dir = {}
    /\ \/ /\ table = "absent"
          /\ ledger = {}
       \/ /\ table = "full"
          /\ ledger \in RunLedgers
    /\ now = Cardinality(ledger) + 1
    /\ applied = {f \in AllFiles : \E r \in ledger : r.migration_name = f.name}
    /\ active = {1}
    /\ ncmds = 0
    /\ limit = Cardinality(active)
    /\ online = TRUE
    /\ hist = <<>>
    /\ InitProcs

NextDir == \E p \in Procs : Step(p)

SpecDir == InitDir /\ [][NextDir]_vars

\* One command of scripts/migrate.cjs (or of an importer of the class) on
\* a store that earlier runs have filled, or that cannot be reached.
InitCli ==
    /\ dir = AllFiles
    /\ folder = "present"
    /\ \/ /\ table = "absent"
          /\ ledger = {}
       \/ /\ table = "full"
          /\ ledger \in RunLedgers
    /\ now = Cardinality(ledger) + 1
    /\ applied = {f \in AllFiles : \E r \in ledger : r.migration_name = f.name}
    /\ active = {1}
    /\ ncmds = 0
    /\ limit = Cardinality(active)
    /\ online \in BOOLEAN
    /\ hist = <<>>
    /\ InitProcs

NextCli == \E p \in Procs : Cli(p) \/ Step(p)

SpecCli == InitCli /\ [][NextCli]_vars

\* One command on the store of an installation that predates batches: the
\* table `migrations` is missing, or has no batch column and records the
\* first files (their batch read as 0 for NULL).
LegacyLedgers ==
    {{[migration_name |-> Filename(k).name, executed_at |-> k, batch |-> 0] :
        k \in 1..n} : n \in 0..MaxFiles}

InitLegacy ==
    /\ dir \in {{Filename(k) : k \in 1..n} : n \in 0..MaxFiles}
    /\ folder = "present"
    /\ \/ /\ table = "absent"
          /\ ledger = {}
       \/ /\ table = "legacy"
          /\ ledger \in LegacyLedgers
          /\ \A r \in ledger : \E f \in dir : f.name = r.migration_name
    /\ now = Cardinality(ledger) + 1
    /\ applied = {f \in AllFiles : \E r \in ledger : r.migration_name = f.name}
    /\ active = {1}
    /\ ncmds = 0
    /\ limit = Cardinality(active)
    /\ online = TRUE
    /\ hist = <<>>
    /\ InitProcs

NextLegacy == \E p \in Procs : Step(p)

SpecLegacy == InitLegacy /\ [][NextLegacy]_vars

\* ================================================================ claims
NamesIn(rows) == {r.migration_name : r \in rows}

RowOf(rows, name) == CHOOSE r \in rows : r.migration_name = name

UpsOf(p) == SelectSeq(trace[p], LAMBDA e : e.call = "up")

DownsOf(p) == SelectSeq(trace[p], LAMBDA e : e.call = "down")

LastOf(s) == s[Len(s)]

\* Process p executes a run whose predecessor, the last command returned,
\* was a run that resolved, and no file was added in between.
RunAfterRun(p) ==
    /\ pc[p] # "idle"
    /\ op[p] = "run"
    /\ hist # <<>>
    /\ LastOf(hist).op = "run"
    /\ LastOf(hist).result = "ok"
    /\ LastOf(hist).dir = dir

\* C1: a runMigrations() that directly follows a runMigrations() that
\* returned normally, with the same files, invokes no up(), leaves every
\* ledger row as it was and reports 'Nothing to migrate'.
C1_RunIdempotent ==
    \A p \in Procs : RunAfterRun(p) =>
        /\ trace[p] = <<>>
        /\ ledger = ledger0[p]
        /\ pc[p] = "done" => (result[p] = "ok" /\ report[p] = "Nothing to migrate")

C1_Witness ==
    \E p \in Procs : RunAfterRun(p) /\ pc[p] = "done" /\ Cardinality(ledger) >= 2

\* C2: within one runMigrations(), up() calls happen in ascending order of
\* the files' timestamps, each after the preceding one succeeded; and when
\* the up() of a file is about to begin, every file ordered before it is
\* recorded in the ledger, the ones that were pending having had their up()
\* completed in this run.
C2_ForwardOrder ==
    \A p \in Procs :
        /\ \A a, b \in 1..Len(UpsOf(p)) : a < b =>
              /\ UpsOf(p)[a].file.timestamp < UpsOf(p)[b].file.timestamp
              /\ UpsOf(p)[a].ok
        /\ pc[p] = "up" =>
              \A k \in 1..(i[p] - 1) :
                 LET A == migrationFiles[p][k]
                 IN  /\ A.timestamp < migrationFiles[p][i[p]].timestamp
                     /\ \E r \in ledger : r.migration_name = A.name
                     /\ A.name \notin NamesIn(ledgerAtRun[p]) =>
                           \E a \in 1..Len(trace[p]) :
                              /\ trace[p][a].call = "up"
                              /\ trace[p][a].name = A.name
                              /\ trace[p][a].ok

C2_Witness ==
    \E p \in Procs : pc[p] = "up" /\ i[p] = 3 /\ Len(UpsOf(p)) = 2

\* C3: every row a runMigrations() invocation has created carries the batch
\* number (highest batch in the ledger when the invocation started) + 1,
\* the highest batch of an empty ledger counting as 0.
C3_BatchGrouping ==
    \A p \in Procs :
        (fn[p] = "run" /\ pc[p] \notin {"idle", "run_tableExists"}) =>
            \A r \in ledger \ ledgerAtRun[p] : r.batch = MaxBatch(ledgerAtRun[p]) + 1

C3_Witness ==
    \E p \in Procs :
        /\ fn[p] = "run"
        /\ pc[p] = "done"
        /\ ledgerAtRun[p] # {}
        /\ Cardinality(ledger \ ledgerAtRun[p]) >= 2

\* C4: when runMigrations() has returned because an up() threw, every file
\* whose up() succeeded before in this run has its row, the failing file has
\* none, and no row that existed before is gone.
C4_PartialFailure ==
    \A p \in Procs :
        (/\ pc[p] = "done"
         /\ fn[p] = "run"
         /\ trace[p] # <<>>
         /\ LastOf(trace[p]).call = "up"
         /\ ~LastOf(trace[p]).ok) =>
            /\ result[p] = "error"
            /\ \A k \in 1..(Len(trace[p]) - 1) :
                  trace[p][k].call = "up" =>
                     \E r \in ledger : r.migration_name = trace[p][k].name
            /\ ~\E r \in ledger : r.migration_name = LastOf(trace[p]).name
            /\ ledgerAtRun[p] \subseteq ledger

C4_Witness ==
    \E p \in Procs :
        /\ pc[p] = "done"
        /\ fn[p] = "run"
        /\ Len(UpsOf(p)) = 2
        /\ UpsOf(p)[1].ok
        /\ ~UpsOf(p)[2].ok
        /\ LastOf(trace[p]).call = "up"

\* C5: rollbackLastBatch() calls down() only for rows of the highest batch,
\* newest row first: in descending executed_at, which is the reverse of the
\* order in which the run applied the files; when it has returned normally
\* it has called down() for each of them.
C5_ReversalOrder ==
    \A p \in Procs :
        fn[p] = "rollbackLastBatch" =>
            LET d == DownsOf(p)
                last == {r \in ledger0[p] : r.batch = MaxBatch(ledger0[p])}
            IN  /\ \A a \in 1..Len(d) : d[a].name \in NamesIn(last)
                /\ \A a, b \in 1..Len(d) : a < b =>
                      /\ RowOf(last, d[a].name).executed_at >
                            RowOf(last, d[b].name).executed_at
                      /\ d[a].file.timestamp > d[b].file.timestamp
                /\ (pc[p] = "done" /\ result[p] = "ok") =>
                      {d[a].name : a \in 1..Len(d)} = NamesIn(last)

C5_Witness ==
    \E p \in Procs :
        /\ fn[p] = "rollbackLastBatch"
        /\ pc[p] = "done"
        /\ result[p] = "ok"
        /\ Len(DownsOf(p)) = 3

\* Process p has returned normally from a run that followed a successful
\* rollbackSpecificMigration(M) of a recorded M, which followed a run that
\* returned normally; the files were the same throughout.
RoundTrip(p) ==
    /\ pc[p] = "done"
    /\ op[p] = "run"
    /\ result[p] = "ok"
    /\ Len(hist) = 2
    /\ hist[1].op = "run"
    /\ hist[1].result = "ok"
    /\ hist[2].op = "rollbackSpecific"
    /\ hist[2].result = "ok"
    /\ hist[2].batch > 0
    /\ hist[1].dir = dir
    /\ hist[2].dir = dir

RowsOf(rows, name) == {r \in rows : r.migration_name = name}

\* C6 as stated: after run, rollbackSpecificMigration(M), run, the ledger
\* holds exactly one row for M and its batch differs from the batch M had
\* after the first run.
C6_RoundTripNewBatch ==
    \A p \in Procs : RoundTrip(p) =>
        /\ Cardinality(RowsOf(ledger, hist[2].target)) = 1
        /\ BatchOf(ledger, hist[2].target) # hist[2].batch

\* C6 as amended: after run, rollbackSpecificMigration(M), run, M has been
\* applied again by the second run and the ledger holds exactly one row for
\* M, whose batch is (highest batch among the rows left by the rollback) + 1;
\* that is a batch higher than the one M had whenever a row of M's earlier
\* batch or of a later one was left.
C6_RoundTrip ==
    \A p \in Procs : RoundTrip(p) =>
        LET M == hist[2].target
        IN  /\ Cardinality(RowsOf(ledger, M)) = 1
            /\ M \notin NamesIn(ledgerAtRun[p])
            /\ \E a \in 1..Len(trace[p]) :
                  trace[p][a].call = "up" /\ trace[p][a].name = M /\ trace[p][a].ok
            /\ BatchOf(ledger, M) = MaxBatch(ledgerAtRun[p]) + 1
            /\ (\E r \in ledgerAtRun[p] : r.batch >= hist[2].batch) =>
                  BatchOf(ledger, M) > hist[2].batch

C6_Witness ==
    \E p \in Procs :
        /\ RoundTrip(p)
        /\ ledgerAtRun[p] # {}
        /\ BatchOf(ledger, hist[2].target) > hist[2].batch

\* C7: under every interleaving of the commands of two processes, no two
\* rows of the ledger carry the same migration name.
C7_LedgerUnique ==
    \A r1, r2 \in ledger : r1.migration_name = r2.migration_name => r1 = r2

\* Two runs have both applied the same file and both executed their INSERT.
C7_Witness ==
    \E p, q \in Procs :
        /\ p # q
        /\ pc[p] = "done" /\ pc[q] = "done"
        /\ fn[p] = "run" /\ fn[q] = "run"
        /\ migrationsExecuted[p] >= 1 /\ migrationsExecuted[q] >= 1
        /\ \E a \in 1..Len(trace[p]), b \in 1..Len(trace[q]) :
              /\ trace[p][a].call = "up" /\ trace[p][a].ok
              /\ trace[q][b].call = "up" /\ trace[q][b].ok
              /\ trace[p][a].name = trace[q][b].name
              /\ trace[p][a].name \in NamesIn(ledger)

C9_RollbackFailureKeepsRecord ==
    \A p \in Procs :
        /\ (/\ pc[p] = "done"
            /\ trace[p] # <<>>
            /\ LastOf(trace[p]).call = "down"
            /\ ~LastOf(trace[p]).ok) =>
               /\ result[p] = "error"
               /\ \E r \in ledger :
                     r.migration_name = LastOf(trace[p]).name /\ r \in ledger0[p]
        /\ pc[p] # "idle" =>
               \A r \in ledger0[p] \ ledger :
                  \E a \in 1..Len(trace[p]) :
                     /\ trace[p][a].call = "down"
                     /\ trace[p][a].name = r.migration_name
                     /\ trace[p][a].ok

C9_Witness ==
    \E p \in Procs :
        /\ pc[p] = "done"
        /\ Len(trace[p]) >= 2
        /\ LastOf(trace[p]).call = "down"
        /\ ~LastOf(trace[p]).ok
        /\ trace[p][1].call = "down"
        /\ trace[p][1].ok

\* C10 as stated: rollbackSingleMigration goes on to down() only for a name
\* that was recorded in the ledger when it was entered (otherwise it raises
\* NotApplied).
C10_NotAppliedGuard ==
    \A p \in Procs : pc[p] \in {"down", "remove"} => recordedAtEntry[p]

\* The rollback methods.
RollbackFns == {"rollbackLastBatch", "rollbackSteps", "rollbackAll", "rollbackSpecific"}

\* The name is among the definitions that discovery returns.
Discovered(name) == FindByName(getMigrationFiles(dir), name) # 0

\* The rows of `rows` whose down() has not succeeded in the command of p.
NotRolledBack(p, rows) ==
    {r \in rows : \A k \in 1..Len(trace[p]) :
        ~(trace[p][k].call = "down" /\ trace[p][k].ok /\ trace[p][k].name = r.migration_name)}

\* The rollback of p has stopped at a record whose file is gone.
StoppedAtMissing(p) ==
    /\ pc[p] = "done"
    /\ fn[p] \in RollbackFns
    /\ list[p] # <<>>
    /\ ~Discovered(list[p][j[p]])

\* C11: a record whose migration is no longer among the discovered files
\* cannot be rolled back: down() is never invoked for it and its record
\* stays; the rollback that reaches it ends with an error, and the records
\* the loop had not reached yet (the older ones, and those of lower batches
\* in rollbackSteps) stay as well, without a down().
C11_DefinitionMissing ==
    \A p \in Procs :
        /\ \A k \in 1..Len(trace[p]) :
              trace[p][k].call = "down" => Discovered(trace[p][k].name)
        /\ \A r \in ledger0[p] : ~Discovered(r.migration_name) => r \in ledger
        /\ StoppedAtMissing(p) =>
              /\ result[p] = "error"
              /\ ledger = NotRolledBack(p, ledger0[p])
              /\ \A k \in j[p]..Len(list[p]) :
                    /\ list[p][k] \in NamesIn(ledger)
                    /\ \A e \in 1..Len(trace[p]) : trace[p][e].name # list[p][k]
        /\ (pc[p] = "done" /\ fn[p] = "rollbackAll"
              /\ \E r \in ledger0[p] : ~Discovered(r.migration_name)) =>
              result[p] = "error"

C11_Witness ==
    \E p \in Procs :
        /\ StoppedAtMissing(p)
        /\ fn[p] = "rollbackAll"
        /\ report[p] = "Migration not found"
        /\ Len(trace[p]) = 1
        /\ Len(list[p]) = 3
        /\ Cardinality(ledger) = 2

\* The rows of the highest batch.
LastBatchOf(rows) == {r \in rows : r.batch = MaxBatch(rows)}

DownNames(p) == {e.name : e \in {trace[p][k] : k \in 1..Len(trace[p])}}

\* C12: rollbackLastBatch calls down() only for records whose batch was the
\* highest when it started and never touches a record of a lower batch;
\* when it returns normally it has called down() for exactly those records
\* and removed exactly them; on an empty ledger it does nothing and returns
\* normally.
C12_LastBatchScope ==
    \A p \in Procs : fn[p] = "rollbackLastBatch" =>
        LET last == LastBatchOf(ledger0[p])
        IN  /\ ledger0[p] \ last \subseteq ledger
            /\ ledger \subseteq ledger0[p]
            /\ \A k \in 1..Len(trace[p]) :
                  trace[p][k].call = "down" /\ trace[p][k].name \in NamesIn(last)
            /\ (pc[p] = "done" /\ result[p] = "ok") =>
                  /\ ledger = ledger0[p] \ last
                  /\ DownNames(p) = NamesIn(last)
                  /\ Len(trace[p]) = Cardinality(last)
            /\ (pc[p] = "done" /\ ledger0[p] = {}) =>
                  /\ result[p] = "ok"
                  /\ trace[p] = <<>>

C12_Witness ==
    \E p \in Procs :
        /\ fn[p] = "rollbackLastBatch"
        /\ pc[p] = "done"
        /\ result[p] = "ok"
        /\ Len(trace[p]) = 2
        /\ ledger # {}

BatchesOf(rows) == {r.batch : r \in rows}

\* The m highest batch numbers of the rows (all of them when there are
\* fewer than m).
TopBatches(rows, m) ==
    {b \in BatchesOf(rows) : Cardinality({c \in BatchesOf(rows) : c >= b}) <= m}

AllOk(p) == \A k \in 1..Len(trace[p]) : trace[p][k].ok

\* C13: rollbackSteps(n), n >= 1, on a ledger with k distinct batches calls
\* down() only for records of the min(n, k) highest batches, in order of
\* descending batch, a batch being entered only when every record of the
\* higher batches is gone; when every down() succeeded it returns normally
\* having removed exactly the records of those batches, which is the whole
\* ledger when k <= n.
C13_RollbackSteps ==
    \A p \in Procs : fn[p] = "rollbackSteps" =>
        LET top == TopBatches(ledger0[p], steps[p])
            kept == {r \in ledger0[p] : r.batch \notin top}
        IN  /\ steps[p] >= 1
            /\ kept \subseteq ledger
            /\ ledger \subseteq ledger0[p]
            /\ \A e \in 1..Len(trace[p]) :
                  /\ trace[p][e].call = "down"
                  /\ BatchOf(ledger0[p], trace[p][e].name) \in top
                  /\ \A d \in 1..(e - 1) :
                        BatchOf(ledger0[p], trace[p][d].name) >=
                            BatchOf(ledger0[p], trace[p][e].name)
                  /\ \A r \in ledger :
                        r.batch <= BatchOf(ledger0[p], trace[p][e].name)
            /\ (pc[p] = "done" /\ AllOk(p)) =>
                  /\ result[p] = "ok"
                  /\ ledger = kept
                  /\ Len(trace[p]) = Cardinality(ledger0[p] \ kept)
                  /\ Cardinality(BatchesOf(ledger0[p])) <= steps[p] => ledger = {}

C13_Witness ==
    \E p \in Procs :
        /\ fn[p] = "rollbackSteps"
        /\ pc[p] = "done"
        /\ result[p] = "ok"
        /\ steps[p] = 2
        /\ Cardinality(BatchesOf(ledger0[p])) = 2
        /\ Len(trace[p]) = 3

\* C14: rollbackAllMigrations (on its own or as the first phase of
\* refreshMigrations) calls down() in order of descending executed_at over
\* the whole ledger, whatever the batches: the calls made so far are the
\* newest records, newest first, and only the last of them may have failed;
\* when all succeeded the method leaves the ledger empty.
C14_RollbackAllOrder ==
    \A p \in Procs : fn[p] = "rollbackAll" =>
        LET names == NamesOf(OrderByExecutedAtDesc(ledger0[p]))
        IN  /\ Len(trace[p]) <= Len(names)
            /\ \A k \in 1..Len(trace[p]) :
                  /\ trace[p][k].call = "down"
                  /\ trace[p][k].name = names[k]
                  /\ k < Len(trace[p]) => trace[p][k].ok
            /\ \A k \in 1..Len(names) :
                  k > Len(trace[p]) => names[k] \in NamesIn(ledger)
            /\ (pc[p] = "done" /\ result[p] = "ok") =>
                  /\ ledger = {}
                  /\ Len(trace[p]) = Len(names)

C14_Witness ==
    \E p \in Procs :
        /\ op[p] = "rollbackAll"
        /\ pc[p] = "done"
        /\ result[p] = "ok"
        /\ Len(trace[p]) = 3
        /\ Cardinality(BatchesOf(ledger0[p])) = 2

\* The rollback methods that loop over several records.
RollbackLoops == {"rollbackLastBatch", "rollbackSteps", "rollbackAll"}

\* C15: in rollbackLastBatch, rollbackSteps and rollbackAllMigrations a
\* down() that fails is the last call of the command, which ends with an
\* error at once (no later record, no later batch is tried); the records
\* whose down() succeeded are gone, the failing record and the records not
\* yet processed are still there.
C15_RollbackHalts ==
    \A p \in Procs : fn[p] \in RollbackLoops =>
        /\ \A k \in 1..Len(trace[p]) : k < Len(trace[p]) => trace[p][k].ok
        /\ ~AllOk(p) =>
              /\ pc[p] = "done"
              /\ result[p] = "error"
              /\ LastOf(trace[p]).name \in NamesIn(ledger)
        /\ pc[p] # "remove" => ledger = NotRolledBack(p, ledger0[p])
        /\ pc[p] = "remove" =>
              NotRolledBack(p, ledger0[p]) =
                  {r \in ledger : r.migration_name # LastOf(trace[p]).name}

C15_Witness ==
    \E p \in Procs :
        /\ fn[p] = "rollbackSteps"
        /\ pc[p] = "done"
        /\ Len(trace[p]) = 2
        /\ ~LastOf(trace[p]).ok
        /\ Cardinality(ledger) = 2
        /\ Cardinality(BatchesOf(ledger)) = 2

\* C16: rollbackSpecificMigration(name) with a name that has no record
\* returns normally without any down() and leaves the ledger as it was;
\* with a recorded name it calls down() for that migration only, at most
\* once, leaves every other record alone whatever its batch, and has
\* removed exactly that record when it returns normally.
C16_SpecificSoftNotFound ==
    \A p \in Procs : fn[p] = "rollbackSpecific" =>
        IF target[p] \notin NamesIn(ledger0[p])
        THEN /\ trace[p] = <<>>
             /\ ledger = ledger0[p]
             /\ pc[p] = "done" => result[p] = "ok"
        ELSE /\ Len(trace[p]) <= 1
             /\ \A k \in 1..Len(trace[p]) :
                   trace[p][k].call = "down" /\ trace[p][k].name = target[p]
             /\ ledger0[p] \ RowsOf(ledger0[p], target[p]) \subseteq ledger
             /\ ledger \subseteq ledger0[p]
             /\ (pc[p] = "done" /\ result[p] = "ok") =>
                   /\ ledger = ledger0[p] \ RowsOf(ledger0[p], target[p])
                   /\ Len(trace[p]) = 1
                   /\ trace[p][1].ok

C16_Witness ==
    \E p \in Procs :
        /\ fn[p] = "rollbackSpecific"
        /\ pc[p] = "done"
        /\ result[p] = "ok"
        /\ target[p] \notin NamesIn(ledger0[p])
        /\ \E f \in dir : f.name = target[p]
        /\ ledger # {}

\* C17: when the rollback phase of refreshMigrations fails partway (a
\* down() threw), refreshMigrations ends with that error in the rollback
\* phase: the apply phase is never entered, no up() is called and no record
\* is created; up() is called only after the whole ledger was rolled back.
C17_RefreshStops ==
    \A p \in Procs : op[p] = "refresh" =>
        /\ fn[p] = "rollbackAll" =>
              /\ UpsOf(p) = <<>>
              /\ ledger \subseteq ledger0[p]
              /\ pc[p] = "done" => result[p] = "error"
        /\ ~AllOk(p) /\ ~LastOf(trace[p]).ok /\ LastOf(trace[p]).call = "down" =>
              /\ fn[p] = "rollbackAll"
              /\ pc[p] = "done"
        /\ fn[p] = "run" =>
              /\ \A k \in 1..Len(DownsOf(p)) : DownsOf(p)[k].ok
              /\ Len(DownsOf(p)) = Cardinality(ledger0[p])
              /\ ledger \cap ledger0[p] = {}

C17_Witness ==
    \E p \in Procs :
        /\ op[p] = "refresh"
        /\ ~standalone[p]
        /\ pc[p] = "done"
        /\ fn[p] = "rollbackAll"
        /\ Len(trace[p]) = 2
        /\ ~LastOf(trace[p]).ok
        /\ Cardinality(dir) > Cardinality(ledger0[p])

\* C18: refreshMigrations run as a standalone process ('-e' in argv), every
\* down() and up() succeeding, returns normally with every record of the
\* start rolled back and every file of the directory applied and recorded.
C18_RefreshResetsAndReapplies ==
    \A p \in Procs :
        (op[p] = "refresh" /\ standalone[p] /\ pc[p] = "done" /\ AllOk(p)) =>
            /\ result[p] = "ok"
            /\ NamesIn(ledger0[p]) = {e.name : e \in Range(DownsOf(p))}
            /\ NamesIn(ledger) = {f.name : f \in dir}
            /\ applied = dir

\* C19: once runMigrations is past its schema step, the table `migrations`
\* has the batch column and every row that was there before carries
\* batch 1, also when the table existed without the column; the inserts
\* that follow succeed, so that a run over well-named files whose up()
\* calls all succeed returns normally.
C19_SchemaUpgraded ==
    \A p \in Procs : op[p] = "run" =>
        /\ pc[p] \in {"get_files", "is_executed", "up", "next_batch", "mark"} =>
              /\ table = "full"
              /\ \A r \in ledger : r.batch >= 1
              /\ \A r \in ledger0[p] : r.batch = 0 => [r EXCEPT !.batch = 1] \in ledger
        /\ (pc[p] = "done" /\ AllOk(p) /\ ~getMigrationFilesThrows(dir)) =>
              result[p] = "ok"

\* The run of p has gone through discovery.
PastDiscovery(p) ==
    /\ fn[p] = "run"
    /\ pc[p] \in {"is_executed", "up", "next_batch", "mark", "done"}

\* C20, as claimed: when any entry of src/migrations has a name that does
\* not match <timestamp>_<slug>.<ext>, discovery fails for the whole scan:
\* runMigrations ends with an error, calls no up() and creates no record.
C20_AnyEntryFailsScan ==
    \A p \in Procs :
        (PastDiscovery(p) /\ \E f \in dir : ~Matches(f)) =>
            /\ UpsOf(p) = <<>>
            /\ ledger \subseteq ledger0[p]
            /\ pc[p] = "done" /\ result[p] = "error"

\* C20, amended: when an entry of src/migrations that ends in .ts or .js
\* has a name that does not match the pattern, discovery fails for the
\* whole scan: runMigrations ends with the invalid-format error, calls no
\* up() and creates no record, not even for well-named files that sort
\* before the entry.  Entries with another extension are passed over.
C20_ScriptEntryFailsScan ==
    \A p \in Procs :
        (PastDiscovery(p) /\ \E f \in dir : HasScriptExt(f) /\ ~Matches(f)) =>
            /\ UpsOf(p) = <<>>
            /\ ledger \subseteq ledger0[p]
            /\ pc[p] = "done" /\ result[p] = "error"
            /\ op[p] = "run" => /\ report[p] = "Invalid migration filename format"
                                /\ ledger = ledger0[p]

C20_Witness ==
    \E p \in Procs :
        /\ op[p] = "run"
        /\ pc[p] = "done"
        /\ report[p] = "Invalid migration filename format"
        /\ StrayScript \in dir
        /\ \E f \in dir \cap AllFiles :
              /\ f.name \notin NamesIn(ledger)
              /\ f.timestamp < StrayScript.timestamp

\* C21: when src/migrations does not exist, discovery creates it and
\* returns no file, without error: the runMigrations() that found it
\* missing returns normally with 'Nothing to migrate', the table
\* `migrations` exists, no up() was called and the ledger is as it was; a
\* run never ends with the directory still missing.
C21_FirstRunBootstrap ==
    \A p \in Procs :
        /\ (fn[p] = "run" /\ folder = "made") =>
              /\ pc[p] = "done"
              /\ result[p] = "ok"
              /\ report[p] = "Nothing to migrate"
              /\ migrationFiles[p] = <<>>
              /\ trace[p] = <<>>
              /\ ledger = ledger0[p]
              /\ table = "full"
        /\ (op[p] = "run" /\ pc[p] \in {"is_executed", "up", "next_batch", "mark", "done"}) =>
              folder # "missing"

C21_Witness ==
    \E p \in Procs :
        /\ op[p] = "run"
        /\ pc[p] = "done"
        /\ folder = "made"
        /\ ledger0[p] = {}
        /\ result[p] = "ok"

\* C22: the definitions that a successful discovery returns have pairwise
\* different names, so that a ledger name resolves to one definition.
C22_NamesUnique ==
    \A p \in Procs :
        \A a, b \in 1..Len(migrationFiles[p]) :
            a # b => migrationFiles[p][a].name # migrationFiles[p][b].name

\* C23: under sequentially executed commands, of two ledger records the
\* one recorded earlier has the lower or the same batch, and every batch
\* is a positive integer.
C23_BatchMonotone ==
    /\ \A r \in ledger : r.batch \in Nat /\ r.batch >= 1
    /\ \A r1, r2 \in ledger : r1.executed_at < r2.executed_at => r1.batch <= r2.batch

C23_Witness ==
    /\ \A p \in Procs : pc[p] = "idle"
    /\ ncmds = 3
    /\ \E r1, r2 \in ledger :
          /\ r1.executed_at < r2.executed_at
          /\ r1.batch < r2.batch
          /\ r2.migration_name = Slugs[1]

\* C24: whenever no command is in progress, a migration has a ledger
\* record exactly if its up() has succeeded and its down() has not
\* succeeded since.
C24_LedgerMirrorsApplied ==
    (\A p \in Procs : pc[p] = "idle") => NamesIn(ledger) = {f.name : f \in applied}

\* The position of a name among the files of the run of p.
PositionOf(p, name) ==
    CHOOSE k \in 1..Len(migrationFiles[p]) : migrationFiles[p][k].name = name

\* C25: when an up() fails during runMigrations, the run ends at once with
\* an error: the failed up() is the last call of the run, it is not called
\* a second time, and no file ordered after it gets an up() or a record.
C25_RunHalts ==
    \A p \in Procs : (fn[p] = "run" /\ UpsOf(p) # <<>> /\ ~LastOf(UpsOf(p)).ok) =>
        LET failed == LastOf(UpsOf(p)).name
        IN  /\ pc[p] = "done"
            /\ result[p] = "error"
            /\ \A k \in 1..(Len(UpsOf(p)) - 1) :
                  /\ UpsOf(p)[k].ok
                  /\ UpsOf(p)[k].name # failed
                  /\ PositionOf(p, UpsOf(p)[k].name) < PositionOf(p, failed)
            /\ failed \notin NamesIn(ledger)
            /\ \A k \in 1..Len(migrationFiles[p]) :
                  k > PositionOf(p, failed) =>
                      RowsOf(ledger, migrationFiles[p][k].name) \subseteq ledgerAtRun[p]

C25_Witness ==
    \E p \in Procs :
        /\ op[p] = "run"
        /\ pc[p] = "done"
        /\ Len(UpsOf(p)) = 2
        /\ ~LastOf(UpsOf(p)).ok
        /\ Len(migrationFiles[p]) = 3
        /\ Cardinality(ledger) = 1

\* What showMigrationStatus has displayed when it returns: nothing but the
\* notice when the table is absent, otherwise every ledger record, newest
\* first.
StatusDisplayed(p) ==
    IF table = "absent"
    THEN /\ output[p] = <<>>
         /\ report[p] = "Migration table does not exist."
    ELSE /\ Len(output[p]) = Cardinality(ledger)
         /\ {[migration_name |-> r.migration_name, executed_at |-> r.executed_at] :
                r \in ledger} = Range(output[p])
         /\ \A k \in 1..(Len(output[p]) - 1) :
               output[p][k].executed_at > output[p][k + 1].executed_at
         /\ report[p] = IF ledger = {} THEN "No migrations executed yet"
                        ELSE "Total migrations executed"

CliDone(p, commands) == pc[p] = "done" /\ argv[p].command \in commands

\* C27, as claimed: the `status` command ends with exit code 0 in every
\* state of the store, a failing status query included.
C27_StatusExitsZero ==
    \A p \in Procs : CliDone(p, {"status"}) => code[p] = 0

\* C27, amended: the `status` command ends with exit code 0 when
\* showMigrationStatus returned normally (table absent, ledger empty or
\* records listed), which it does whenever the store answers, and with
\* exit code 1 when the status query failed.
C27_StatusExitCode ==
    \A p \in Procs : CliDone(p, {"status"}) =>
        /\ op[p] = "status"
        /\ online => (code[p] = 0 /\ result[p] = "ok" /\ StatusDisplayed(p))
        /\ ~online => (code[p] = 1 /\ result[p] = "error" /\ output[p] = <<>>)
        /\ ledger = ledger0[p]

C27_Witness ==
    \E p \in Procs :
        /\ CliDone(p, {"status"})
        /\ ~online
        /\ code[p] = 1
        /\ ledger # {}

PositiveInteger(s) ==
    /\ s # <<>>
    /\ \A k \in 1..Len(s) : IsDigit(s[k])
    /\ Numeral(s, 10) >= 1

\* C29: the `rollback` command with --name=<name> rolls back that one
\* name, whatever --step says; otherwise with --step=<n>, n a positive
\* integer, it rolls back the n most recent batches; otherwise it rolls
\* back the last batch; a --step value that is not a positive integer
\* performs no rollback operation at all.
C29_RollbackDispatch ==
    \A p \in Procs : argv[p].command = "rollback" =>
        LET name == argv[p].name
            step == argv[p].step
        IN  /\ (name.given /\ name.value # <<>>) =>
                  (op[p] = "rollbackSpecific" /\ target[p] = name.value[1])
            /\ (~name.given /\ step.given /\ PositiveInteger(step.value)) =>
                  (op[p] = "rollbackSteps" /\ steps[p] = Numeral(step.value, 10))
            /\ (~name.given /\ step.given /\ ~PositiveInteger(step.value)) =>
                  (op[p] = "none" /\ trace[p] = <<>> /\ ledger = ledger0[p])
            /\ (~name.given /\ ~step.given) => op[p] = "rollbackLastBatch"

\* The scenario of the three definitions create_x, add_y_to_x, create_z.
ScenarioFiles == {Filename(1), Filename(2), Filename(3)}

\* The ledger the scenario's run leaves: the three names, all of batch 1.
ScenarioLedger(rows) ==
    /\ Cardinality(rows) = 3
    /\ NamesIn(rows) = {"create_x", "add_y_to_x", "create_z"}
    /\ \A r \in rows : r.batch = 1

\* The names of a sequence of calls.
CallNames(s) == [k \in 1..Len(s) |-> s[k].name]

\* The names of a sequence of displayed rows.
DisplayedNames(s) == [k \in 1..Len(s) |-> s[k].migration_name]

TwoRuns == \A p \in Procs : fn[p] = "run" /\ op[p] = "run" /\ pc[p] # "idle"

\* C31: batch numbers are allocated without coordination.  Two
\* runMigrations invocations that execute at the same time both take
\* MAX(batch) + 1 of the ledger they see, so their numbers differ only when
\* the later one was computed with a record of the earlier number already
\* in the ledger, and they are equal otherwise; records written by the two
\* invocations can therefore share one batch number.
C31_UncoordinatedBatch ==
    TwoRuns =>
        /\ \A p, q \in Procs :
              (currentBatch[p] # 0 /\ currentBatch[q] # 0) =>
                  /\ currentBatch[p] >= 1
                  /\ currentBatch[p] < currentBatch[q] =>
                        \E r \in ledger : r.batch = currentBatch[q] - 1
                  /\ ledger = {} => currentBatch[p] = currentBatch[q]
        /\ \A p \in Procs : \A r \in inserted[p] :
              /\ r \in ledger
              /\ r.batch = currentBatch[p]
        /\ \A r \in ledger \ (ledger0[1] \cap ledger0[2]) :
              \E p \in Procs : r \in inserted[p]

\* Each invocation has created a record, and the two records carry one
\* batch number.
C31_Witness ==
    /\ TwoRuns
    /\ \A p \in Procs : pc[p] = "done" /\ result[p] = "ok"
    /\ \E a \in inserted[1], b \in inserted[2] :
          /\ a.migration_name # b.migration_name
          /\ {a, b} \subseteq ledger
          /\ a.batch = b.batch

\* Both processes execute a rollback command at the same time.
TwoRollbacks == \A p \in Procs : op[p] \in RollbackFns /\ pc[p] # "idle"

\* The down() calls the two commands have made for the name.
DownCalls(name) ==
    {<<p, k>> \in Procs \X (1..MaxFiles) :
        /\ k <= Len(trace[p])
        /\ trace[p][k].call = "down"
        /\ trace[p][k].name = name}

\* C32: when two rollback commands run at the same time, down() is called
\* at most once in total for a migration, and a command has never called
\* down() for a migration whose record was already gone when it entered
\* rollbackSingleMigration for it.
C32_BackwardAtMostOnce ==
    TwoRollbacks =>
        /\ \A name \in AllNames : Cardinality(DownCalls(name)) <= 1
        /\ \A p \in Procs : pc[p] = "remove" => recordedAtEntry[p]

\* The run of p has recorded the name: up() succeeded, the INSERT returned
\* and the loop has moved past the file.
Recorded(p, name) ==
    \E k \in 1..Len(migrationFiles[p]) :
        /\ migrationFiles[p][k].name = name
        /\ k < i[p]
        /\ \E n \in 1..Len(trace[p]) :
              trace[p][n].call = "up" /\ trace[p][n].name = name /\ trace[p][n].ok

\* C33: under any interleaving of two runMigrations invocations in which
\* both record the same name, the second INSERT raises no error, the ledger
\* keeps a single record for the name, and that record is the one the
\* first INSERT wrote, with its batch and executed_at.
C33_DuplicateInsertHarmless ==
    TwoRuns =>
        /\ \A name \in AllNames :
              (\A p \in Procs : Recorded(p, name)) =>
                  /\ Cardinality(RowsOf(ledger, name)) = 1
                  /\ \E p \in Procs :
                        /\ RowsOf(ledger, name) = RowsOf(inserted[p], name)
                        /\ \A q \in Procs \ {p} : RowsOf(inserted[q], name) = {}
        /\ \A p \in Procs :
              (pc[p] = "done" /\ result[p] = "error") =>
                  \/ currentBatch[p] = 0
                  \/ ~LastOf(trace[p]).ok

C33_Witness ==
    /\ TwoRuns
    /\ \A p \in Procs : pc[p] = "done" /\ result[p] = "ok"
    /\ \E name \in AllNames :
          /\ \A p \in Procs : Recorded(p, name)
          /\ RowsOf(inserted[2], name) # {}
    /\ inserted[1] # {}

\* C34: in a standalone command (argv contains '-e') the pool is closed
\* exactly once and only after the command's last store access: while the
\* command is in progress the pool is open, so that no query, up() or
\* down() is issued on a closed pool, and when the command has ended the
\* pool has been closed without a second pool.end(); this for every public
\* method, refreshMigrations included.
C34_PoolClosedOnce ==
    \A p \in Procs : standalone[p] =>
        /\ pc[p] \notin {"idle", "done"} => pool[p] = "open"
        /\ pc[p] = "done" =>
              /\ pool[p] = "ended"
              /\ report[p] \notin {"Called end on pool more than once",
                                   "Cannot use a pool after calling end on the pool"}

\* The directory holds a .ts/.js entry whose name does not match the
\* pattern.
InvalidEntry == \E f \in dir : HasScriptExt(f) /\ ~Matches(f)

\* The rollback command of p has a recorded migration to roll back.
HasRecorded(p) ==
    IF op[p] = "rollbackSpecific" THEN target[p] \in NamesIn(ledger0[p])
    ELSE ledger0[p] # {}

\* C35: with an invalid .ts/.js entry in the directory every rollback of a
\* recorded migration (specific, last batch, steps, all, and the rollback
\* phase of refresh) fails with the format error before any down() is
\* called, and the ledger is left unchanged.
C35_InvalidEntryBlocksRollback ==
    \A p \in Procs :
        (InvalidEntry /\ op[p] \in RollbackFns \cup {"refresh"}) =>
            /\ trace[p] = <<>>
            /\ ledger = ledger0[p]
            /\ pc[p] \notin {"down", "remove"}
            /\ (pc[p] = "done" /\ HasRecorded(p)) =>
                  /\ result[p] = "error"
                  /\ report[p] = "Invalid migration filename format"
                  /\ fn[p] \in RollbackFns

C35_Witness ==
    \E p \in Procs :
        /\ InvalidEntry
        /\ op[p] = "refresh"
        /\ pc[p] = "done"
        /\ Cardinality(ledger) >= 2
        /\ result[p] = "error"

====
